---- MODULE Spec2Model ----
(***************************************************************************)
(* The shitstorm simulation of src/main.py: a two-node graph (react,       *)
(* evaluate) with a human-in-the-loop interrupt, driven by run_cli.        *)
(*                                                                         *)
(* Library behaviour the source relies on and the model takes as given:    *)
(*  - app.stream(input) writes the keys of input to the thread's state and *)
(*    runs the graph from START; unfinished work of the previous run       *)
(*    (a pending interrupt) is dropped.  In "values" mode the first event  *)
(*    is the state after the input was written, before any node runs.      *)
(*  - interrupt(payload) raises on its first execution: the node's return  *)
(*    value is not written and the payload is stored as the pending        *)
(*    interrupt.  On resume the node runs again from its first line and    *)
(*    interrupt(...) returns the resume value.                             *)
(*  - app.resume([answer], checkpoint_id) resumes the pending interrupt    *)
(*    and runs the graph until the next interrupt or END.                  *)
(*  - A dict is a function whose DOMAIN is the set of its keys.            *)
(***************************************************************************)
EXTENDS Integers, Sequences, FiniteSets, TLC

VARIABLES
    state,          \* the thread's SimState as the graph holds (checkpoints) it
    node,           \* the graph node that runs next: "react", "evaluate", END
    pending,        \* the pending interrupt's payload (community_wave), or NoInterrupt
    current_state,  \* run_cli: the dict handed to app.stream
    interrupted,    \* run_cli: the interrupts of the last stream, << >> when None
    checkpoint_id,  \* run_cli: event.get("checkpoint_id")
    answer,         \* run_cli: the stripped reply of the human
    pc,             \* run_cli: where the driver stands
    request,        \* the content of the last request sent to the generator
    response,       \* what the generator did with that request
    suspension      \* this round's suspension request: "none", "open", "answered"

vars == <<state, node, pending, current_state, interrupted, checkpoint_id,
          answer, pc, request, response, suspension>>

----------------------------------------------------------------------------
(* Bounds of the model *)

\* rounds a session may complete before the model stops starting new ones
MaxIter == 8
\* longest line the human types, in characters
MaxTyped == 1

----------------------------------------------------------------------------
(* Values *)

START == "__start__"
END == "__end__"
None == "None"
NoInterrupt == [type |-> "none"]
CheckpointId == "checkpoint"
NoRequest == [kind |-> "none"]
NoResponse == [kind |-> "none"]
\* llm.invoke raised instead of returning
Raised == [kind |-> "raised"]
\* llm.invoke(...).content of a comment request, and of an evaluation request
Comments(text) == [kind |-> "comments", comments |-> text]
Raw(text) == [kind |-> "evaluation", raw |-> text]

\* the cause typed at the prompt (any non-empty string; it is never inspected)
Cause == "product defect"

\* what llm.invoke(...).content.strip() can be for the comment request
Waves == {"wave A", "wave B"}

\* characters of a typed line: a letter and a blank
Chars == {"a", " "}

RECURSIVE SeqsUpTo(_, _)
SeqsUpTo(S, n) ==
    IF n = 0 THEN {<< >>}
    ELSE LET shorter == SeqsUpTo(S, n - 1)
         IN  shorter \cup {Append(s, c) : s \in {t \in shorter : Len(t) = n - 1}, c \in S}

Typed == SeqsUpTo(Chars, MaxTyped)

RECURSIVE lstrip(_)
lstrip(s) == IF s # << >> /\ Head(s) = " " THEN lstrip(Tail(s)) ELSE s

RECURSIVE rstrip(_)
rstrip(s) ==
    IF s # << >> /\ s[Len(s)] = " " THEN rstrip(SubSeq(s, 1, Len(s) - 1)) ELSE s

\* str.strip()
strip(s) == rstrip(lstrip(s))

\* dict.get(k, d)
Get(d, k, default) == IF k \in DOMAIN d THEN d[k] ELSE default

\* dict.update(e), and the graph's write of a node's return value
Update(d, e) ==
    [k \in DOMAIN d \cup DOMAIN e |-> IF k \in DOMAIN e THEN e[k] ELSE d[k]]

\* s[-n:]
LastN(s, n) == SubSeq(s, IF Len(s) > n THEN Len(s) - n + 1 ELSE 1, Len(s))

----------------------------------------------------------------------------
(* Helper functions *)

Min(a, b) == IF a < b THEN a ELSE b
Max(a, b) == IF a > b THEN a ELSE b

\* _clamp with the upper bound forgotten
_clamp_no_upper(n, lo, hi) == Max(lo, n)

_clamp(n, lo, hi) == Max(lo, Min(hi, n))

_anger_from_rep(rep) == _clamp(100 - rep, 0, 100)

----------------------------------------------------------------------------
(* The generator's evaluation output and json.loads *)

EmptyDict == [k \in {} |-> TRUE]

\* a "score" value int() rejects (null, "n/a", a list): int(NotANumber) raises
NotANumber == 0 - 1

Labels == {"good", "mixed", "poor", "great"}

\* JSON objects the generator may answer with: every label with every pair of
\* flags, every label with another score, the empty object, and an object
\* whose score is no number
EvalDicts ==
    {[score |-> 40, label |-> l, resolved |-> r, catastrophe |-> c] :
        l \in Labels, r \in BOOLEAN, c \in BOOLEAN}
    \cup {[score |-> 90, label |-> l, resolved |-> FALSE, catastrophe |-> FALSE] :
        l \in Labels}
    \cup {EmptyDict}
    \cup {[score |-> NotANumber, label |-> "good", resolved |-> FALSE,
           catastrophe |-> FALSE]}

\* A text is the sequence of its pieces between ``` fences (text.split("```")).
\* A piece is JSON or not; a JSON piece is an object (a dict) or another value.
JsonObject(d) == [json |-> TRUE, object |-> TRUE, value |-> d]
JsonList == [json |-> TRUE, object |-> FALSE, value |-> EmptyDict]
NotJson == [json |-> FALSE, object |-> FALSE, value |-> EmptyDict]

FencedDict == [score |-> 90, label |-> "good", resolved |-> TRUE, catastrophe |-> FALSE]

\* what llm.invoke(...).content can be for the evaluation request: a JSON
\* object, a JSON list, prose, a fenced JSON block, prose followed by an
\* unclosed fence and JSON
RawOutputs ==
    {<<JsonObject(d)>> : d \in EvalDicts}
    \cup {<<JsonList>>, <<NotJson>>,
          <<NotJson, JsonObject(FencedDict), NotJson>>,
          <<NotJson, JsonObject(FencedDict)>>}

\* json.loads(text): the text parses iff it is one JSON piece with no fence
json_loads(text) ==
    IF Len(text) = 1 /\ text[1].json
    THEN [ok |-> TRUE, object |-> text[1].object, value |-> text[1].value]
    ELSE [ok |-> FALSE, object |-> FALSE, value |-> EmptyDict]

\* raw.strip().split("```")[-1]
raw_fixed(raw) == <<raw[Len(raw)]>>

\* the fallback record with the label 'poor'
fallback_poor ==
    [score |-> 40, label |-> "poor",
     reasons |-> <<"Konnte JSON nicht sauber parsen.">>,
     suggestions |-> <<"Klarere Entschuldigung", "Konkrete Massnahmen nennen">>,
     resolved |-> FALSE, catastrophe |-> FALSE]

fallback ==
    [score |-> 40, label |-> "mixed",
     reasons |-> <<"Konnte JSON nicht sauber parsen.">>,
     suggestions |-> <<"Klarere Entschuldigung", "Konkrete Massnahmen nennen">>,
     resolved |-> FALSE, catastrophe |-> FALSE]

\* lines 154-167: data after the two parse attempts
parse(raw) ==
    LET first == json_loads(raw)
        second == json_loads(raw_fixed(raw))
    IN  IF first.ok THEN [object |-> first.object, value |-> first.value]
        ELSE IF second.ok THEN [object |-> second.object, value |-> second.value]
        ELSE [object |-> TRUE, value |-> fallback]

----------------------------------------------------------------------------
(* Node: evaluation *)

\* delta with an unknown label treated as 'poor'
delta_unknown_poor(label) ==
    CASE label = "good" -> 20
      [] label = "mixed" -> 0
      [] OTHER -> 0 - 20

\* the change of the score with 'good' worth half as much
delta_good_10(label) ==
    IF label = "good" THEN 10 ELSE IF label = "poor" THEN 0 - 20 ELSE 0

\* line 175: the reputation delta of a label
delta(label) ==
    CASE label = "good" -> 20
      [] label = "mixed" -> 0
      [] label = "poor" -> 0 - 20
      [] OTHER -> 0

\* the end conditions with line 182 read as (a or b or c) and d
status_for_precedence(resolved, catastrophe, new_rep, itr) ==
    IF resolved \/ new_rep >= 80 THEN "resolved"
    ELSE IF (catastrophe \/ new_rep <= 15 \/ itr >= 6) /\ new_rep < 60
         THEN "catastrophe"
         ELSE "ongoing"

\* the end conditions with the catastrophe test made first
status_for_catastrophe_first(resolved, catastrophe, new_rep, itr) ==
    IF catastrophe \/ new_rep <= 15 \/ (itr >= 6 /\ new_rep < 60) THEN "catastrophe"
    ELSE IF resolved \/ new_rep >= 80 THEN "resolved"
         ELSE "ongoing"

\* the end conditions with <= 60 in place of < 60
status_for_boundary(resolved, catastrophe, new_rep, itr) ==
    IF resolved \/ new_rep >= 80 THEN "resolved"
    ELSE IF catastrophe \/ new_rep <= 15 \/ (itr >= 6 /\ new_rep <= 60)
         THEN "catastrophe"
         ELSE "ongoing"

\* the end conditions with the round limit of line 182 one round late
status_for_limit_late(resolved, catastrophe, new_rep, itr) ==
    IF resolved \/ new_rep >= 80 THEN "resolved"
    ELSE IF catastrophe \/ new_rep <= 15 \/ (itr > 6 /\ new_rep < 60)
         THEN "catastrophe"
         ELSE "ongoing"

\* lines 179-183: the end conditions
status_for(resolved, catastrophe, new_rep, itr) ==
    IF resolved \/ new_rep >= 80 THEN "resolved"
    ELSE IF catastrophe \/ new_rep <= 15 \/ (itr >= 6 /\ new_rep < 60)
         THEN "catastrophe"
         ELSE "ongoing"

\* lines 116-120, 133-148: the evaluation request
evaluation_request(st) ==
    [kind |-> "evaluation",
     cause |-> st["cause"],
     prev |-> LastN(Get(st, "community_reactions", << >>), 1),
     reply |-> Get(st, "company_response", << >>)]

\* lines 169-192: what the node returns for the parsed data, or that it raises
\* (data.get on a value that is no dict, int() of a score that is no number)
evaluation_out(st, data) ==
    LET d == data.value
        rep == Get(st, "reputation_score", 50)
        itr == Get(st, "iteration", 0)
        score == Get(d, "score", 50)
        label == Get(d, "label", "mixed")
        resolved == Get(d, "resolved", FALSE)
        catastrophe == Get(d, "catastrophe", FALSE)
        new_rep == _clamp(rep + delta(label), 0, 100)
    IN  IF ~data.object \/ score = NotANumber
        THEN [raised |-> TRUE, out |-> EmptyDict]
        ELSE [raised |-> FALSE,
              out |-> [last_eval |-> d,
                       reputation_score |-> new_rep,
                       iteration |-> itr + 1,
                       status |-> status_for(resolved, catastrophe, new_rep, itr)]]

evaluation_node(st, raw) == evaluation_out(st, parse(raw))

\* lines 208-211
continue_or_end(st) ==
    IF Get(st, "status", None) \in {"resolved", "catastrophe"} THEN END ELSE "react"

----------------------------------------------------------------------------
(* Node: community reaction *)

\* lines 54-88: the comment request
reaction_request(st) ==
    [kind |-> "comments",
     cause |-> st["cause"],
     last_company |-> Get(st, "company_response", << >>),
     prev |-> LastN(Get(st, "community_reactions", << >>), 2),
     anger |-> _anger_from_rep(Get(st, "reputation_score", 50))]

\* the node with the append of line 92 forgotten
community_reaction_node_no_append(st, comments, company_reply) ==
    [community_reactions |-> Get(st, "community_reactions", << >>),
     company_response |-> company_reply]

\* the node counting the round itself, when it stores the reply
community_reaction_node_counts(st, comments, company_reply) ==
    [community_reactions |-> Append(Get(st, "community_reactions", << >>), comments),
     company_response |-> company_reply,
     iteration |-> Get(st, "iteration", 0) + 1]

\* lines 91-92, 105-108: what the node returns once interrupt() returned reply
community_reaction_node(st, comments, company_reply) ==
    [community_reactions |-> Append(Get(st, "community_reactions", << >>), comments),
     company_response |-> company_reply]

\* line 96-103: the payload of the interrupt
interrupt_payload(comments) ==
    [type |-> "company_response_required", community_wave |-> comments]

----------------------------------------------------------------------------
(* The thread's state as the nodes read it (state.get with its defaults) *)

cause == Get(state, "cause", None)
community_reactions == Get(state, "community_reactions", << >>)
reputation_score == Get(state, "reputation_score", 50)
iteration == Get(state, "iteration", 0)
status == Get(state, "status", None)

SimStateKeys ==
    {"cause", "company_response", "community_reactions", "reputation_score",
     "iteration", "status", "last_eval"}

Restrict(d, K) == [k \in DOMAIN d \cap K |-> d[k]]

\* lines 237-243
initial_state ==
    [cause |-> Cause, community_reactions |-> << >>, reputation_score |-> 50,
     iteration |-> 0, status |-> "ongoing"]

\* lines 231-249: the graph is compiled, the thread has no checkpoint yet
Init ==
    /\ state = EmptyDict
    /\ node = START
    /\ pending = NoInterrupt
    /\ current_state = initial_state
    /\ interrupted = << >>
    /\ checkpoint_id = None
    /\ answer = << >>
    /\ pc = "stream"
    /\ request = NoRequest
    /\ response = NoResponse
    /\ suspension = "none"

----------------------------------------------------------------------------
(* run_cli and the graph *)

\* lines 251-282: the top of the while loop.  app.stream(current_state) writes
\* the input and starts a run at START -> react; the first event is the state
\* so written, and the driver returns on it when it shows a terminal status.
StreamStart ==
    /\ pc = "stream"
    /\ LET st == Update(state, Restrict(current_state, SimStateKeys))
       IN  /\ state' = st
           /\ pc' = IF /\ DOMAIN Get(st, "last_eval", EmptyDict) # {}
                       /\ Get(st, "status", None) \in {"resolved", "catastrophe"}
                    THEN "done"
                    ELSE "streaming"
    /\ node' = "react"
    /\ pending' = NoInterrupt
    /\ interrupted' = << >>
    /\ checkpoint_id' = None
    /\ UNCHANGED <<current_state, answer, request, response, suspension>>

\* lines 54-103: react runs with no resume value: the generator returns
\* comments and interrupt() raises.  Inside app.stream the driver takes the
\* interrupt (lines 258-261).  Inside app.resume the event only updates
\* current_state (lines 303-306) and the while loop starts over; the key it
\* adds, "__interrupt__", is no key of SimState and is not modelled.
ReactInterrupt(comments) ==
    /\ pc \in {"streaming", "resuming"}
    /\ node = "react"
    /\ pending = NoInterrupt
    /\ iteration < MaxIter
    /\ request' = reaction_request(state)
    /\ response' = Comments(comments)
    /\ pending' = interrupt_payload(comments)
    /\ suspension' = "open"
    /\ IF pc = "streaming"
       THEN /\ interrupted' = <<interrupt_payload(comments)>>
            /\ checkpoint_id' \in {None, CheckpointId}
            /\ pc' = "ask"
            /\ UNCHANGED current_state
       ELSE /\ pc' = "stream"
            /\ UNCHANGED <<current_state, interrupted, checkpoint_id>>
    /\ UNCHANGED <<state, node, answer>>

\* the failing call with the log entry written before the call is made
ReactFail_partial ==
    /\ pc \in {"streaming", "resuming"}
    /\ node = "react"
    /\ request' = reaction_request(state)
    /\ response' = Raised
    /\ pc' = "crashed"
    /\ state' = Update(state, community_reaction_node(state, "", << >>))
    /\ UNCHANGED <<node, pending, current_state, interrupted,
                   checkpoint_id, answer, suspension>>

\* lines 83-88: llm.invoke raises; nothing catches it up to __main__
ReactFail ==
    /\ pc \in {"streaming", "resuming"}
    /\ node = "react"
    /\ request' = reaction_request(state)
    /\ response' = Raised
    /\ pc' = "crashed"
    /\ UNCHANGED <<state, node, pending, current_state, interrupted,
                   checkpoint_id, answer, suspension>>

\* lines 285-303: the human's line is read and stripped; without a
\* checkpoint id the reply goes into current_state and the loop streams
\* again, with one app.resume is called
Answer(typed) ==
    /\ pc = "ask"
    /\ interrupted # << >>
    /\ answer' = strip(typed)
    /\ suspension' = "answered"
    /\ IF checkpoint_id = None
       THEN /\ current_state' =
                   Update(current_state, [company_response |-> strip(typed)])
            /\ pc' = "stream"
       ELSE /\ pc' = "resuming"
            /\ UNCHANGED current_state
    /\ UNCHANGED <<state, node, pending, interrupted, checkpoint_id, request,
                   response>>

\* lines 54-108 on resume: react runs again from its first line, the
\* generator is asked again, interrupt() returns the reply and the node's
\* return value is written; the event updates current_state (line 306)
ReactResumed(comments) ==
    /\ pc = "resuming"
    /\ node = "react"
    /\ pending # NoInterrupt
    /\ request' = reaction_request(state)
    /\ response' = Comments(comments)
    /\ LET st == Update(state, community_reaction_node(state, comments, answer))
       IN  /\ state' = st
           /\ current_state' = Update(current_state, st)
    /\ node' = "evaluate"
    /\ pending' = NoInterrupt
    /\ UNCHANGED <<interrupted, checkpoint_id, answer, pc, suspension>>

\* lines 115-192, 208-213: evaluate runs on the generator's answer raw; its
\* return value is written and continue_or_end picks the next node.  A raise
\* inside the node ends the program.
Evaluate(raw) ==
    /\ pc = "resuming"
    /\ node = "evaluate"
    /\ request' = evaluation_request(state)
    /\ response' = Raw(raw)
    /\ LET r == evaluation_node(state, raw)
           st == Update(state, r.out)
       IN  IF r.raised
           THEN /\ pc' = "crashed"
                /\ UNCHANGED <<state, node, current_state, suspension>>
           ELSE /\ state' = st
                /\ current_state' = Update(current_state, st)
                /\ node' = continue_or_end(st)
                /\ pc' = IF continue_or_end(st) = END THEN "stream" ELSE "resuming"
                /\ suspension' = "none"
    /\ UNCHANGED <<pending, interrupted, checkpoint_id, answer>>

\* lines 144-152: llm.invoke raises, outside the try of line 154
EvaluateFail ==
    /\ pc = "resuming"
    /\ node = "evaluate"
    /\ request' = evaluation_request(state)
    /\ response' = Raised
    /\ pc' = "crashed"
    /\ UNCHANGED <<state, node, pending, current_state, interrupted,
                   checkpoint_id, answer, suspension>>

Next ==
    \/ StreamStart
    \/ \E comments \in Waves : ReactInterrupt(comments)
    \/ ReactFail
    \/ \E typed \in Typed : Answer(typed)
    \/ \E comments \in Waves : ReactResumed(comments)
    \/ \E raw \in RawOutputs : Evaluate(raw)
    \/ EvaluateFail

Spec == Init /\ [][Next]_vars

----------------------------------------------------------------------------
(* The evaluation node alone: it is applied once to a state with any score  *)
(* in 0..100 and any iteration, the reply <<"a">> having just been written. *)

EvalStates ==
    {[cause |-> Cause,
      company_response |-> <<"a">>,
      community_reactions |-> [i \in 1..(itr + 1) |-> "wave A"],
      reputation_score |-> rep,
      iteration |-> itr,
      status |-> "ongoing"] : rep \in 0..100, itr \in 0..MaxIter}

InitEval ==
    /\ state \in EvalStates
    /\ current_state = state
    /\ node = "evaluate"
    /\ pending = NoInterrupt
    /\ interrupted = <<interrupt_payload("wave A")>>
    /\ checkpoint_id = CheckpointId
    /\ answer = <<"a">>
    /\ pc = "resuming"
    /\ request = NoRequest
    /\ response = NoResponse
    /\ suspension = "answered"

NextEval == \E raw \in RawOutputs : Evaluate(raw)

SpecEval == InitEval /\ [][NextEval]_vars

----------------------------------------------------------------------------
(* Properties of the evaluation *)

Terminal == {"resolved", "catastrophe"}

\* the last thing the generator was asked for is an evaluation and the node
\* returned: the state shows the result of that evaluation
Evaluated == request.kind = "evaluation" /\ pc # "crashed"

last_eval == Get(state, "last_eval", EmptyDict)
resolvedFlag == Get(last_eval, "resolved", FALSE)
catastropheFlag == Get(last_eval, "catastrophe", FALSE)
evalLabel == Get(last_eval, "label", "mixed")
\* the iteration the evaluation read: the count before its increment
evalIteration == iteration - 1

\* C1: the status an evaluation writes is 'resolved' if the resolved flag is
\* set or the new score is >= 80; otherwise 'catastrophe' if the catastrophe
\* flag is set or the new score is <= 15 or (iteration >= 6 and the new
\* score is < 60); otherwise 'ongoing'.
C1_StatusRule ==
    Evaluated =>
        status = IF resolvedFlag \/ reputation_score >= 80
                 THEN "resolved"
                 ELSE IF \/ catastropheFlag
                         \/ reputation_score <= 15
                         \/ (evalIteration >= 6 /\ reputation_score < 60)
                      THEN "catastrophe"
                      ELSE "ongoing"

\* an evaluation at iteration 6 with no flag set and the score 59 ends in
\* 'catastrophe' by the third clause alone
C1_Witness ==
    /\ Evaluated
    /\ evalIteration = 6 /\ reputation_score = 59
    /\ ~resolvedFlag /\ ~catastropheFlag
    /\ status = "catastrophe"

\* C2: resolved is checked first: with the resolved flag set or a new score
\* >= 80 the status is 'resolved', whatever the catastrophe flag and the
\* iteration are.
C2_ResolvedFirst ==
    (Evaluated /\ (resolvedFlag \/ reputation_score >= 80)) => status = "resolved"

\* the new score is exactly 80, only the catastrophe flag is set, late round
C2_Witness ==
    /\ Evaluated
    /\ reputation_score = 80 /\ catastropheFlag /\ ~resolvedFlag
    /\ evalIteration >= 6
    /\ status = "resolved"

\* C3 as stated: with iteration >= 6 and a new score in [60,100) the status
\* is 'ongoing'.
C3_AsStated ==
    (Evaluated /\ evalIteration >= 6 /\ reputation_score \in 60..99)
        => status = "ongoing"

\* C3 amended: with iteration >= 6, no flag set and a new score in [60,80)
\* the status is 'ongoing'.
C3_OngoingFrom60 ==
    (/\ Evaluated
     /\ evalIteration >= 6
     /\ ~resolvedFlag /\ ~catastropheFlag
     /\ reputation_score \in 60..79)
        => status = "ongoing"

\* the boundary: iteration >= 6 and a new score of exactly 60
C3_Witness ==
    /\ Evaluated
    /\ evalIteration >= 6 /\ reputation_score = 60
    /\ ~resolvedFlag /\ ~catastropheFlag
    /\ status = "ongoing"

\* C4: reputation_score is an integer in [0,100], whatever the score before
\* the evaluation and whatever the label.
C4_ScoreInRange == reputation_score \in 0..100

\* an evaluation labelled 'good' left the score at the upper end, one
\* labelled 'poor' would leave it at the lower end
C4_Witness ==
    /\ Evaluated
    /\ \/ evalLabel = "good" /\ reputation_score = 100
       \/ evalLabel = "poor" /\ reputation_score = 0

\* C5: an evaluation takes the score s to clamp(s + d, 0, 100), d being +20
\* for 'good', 0 for 'mixed', -20 for 'poor' and 0 for any other label; the
\* evaluation's own score field plays no part.
C5_Delta ==
    [][(request'.kind = "evaluation" /\ pc' # "crashed") =>
        LET label == Get(Get(state', "last_eval", EmptyDict), "label", "mixed")
            d == IF label = "good" THEN 20 ELSE IF label = "poor" THEN 0 - 20 ELSE 0
            sum == reputation_score + d
        IN  reputation_score' = IF sum < 0 THEN 0 ELSE IF sum > 100 THEN 100 ELSE sum
      ]_vars

\* an evaluation with an unknown label and the score field 90 left a low
\* score as it was
C5_Witness ==
    /\ Evaluated
    /\ evalLabel = "great" /\ Get(last_eval, "score", 50) = 90
    /\ reputation_score = 10

----------------------------------------------------------------------------
(* Properties of a session *)

\* a suspension request is raised: react reached interrupt() with no reply
SuspensionRaised == pending = NoInterrupt /\ pending' # NoInterrupt

\* C6: once status is 'resolved' or 'catastrophe', no later step changes it
\* or any other state field, and no generator call and no suspension follow.
C6_TerminalIsFinal ==
    [][(status \in Terminal) =>
        (state' = state /\ request' = request /\ pending' = pending)]_vars

\* C7: when no round is in flight, community_reactions has iteration
\* entries (one more between the resumed reaction and its evaluation); a step
\* appends at most one entry and keeps the earlier ones, raises iteration by
\* at most one, and the step that raises iteration completes the round.
C7_OneEntryPerRound ==
    /\ [](Len(community_reactions) = iteration + (IF node = "evaluate" THEN 1 ELSE 0))
    /\ [][(iteration' \in {iteration, iteration + 1})
          /\ (Len(community_reactions') \in
                {Len(community_reactions), Len(community_reactions) + 1})
          /\ (SubSeq(community_reactions', 1, Len(community_reactions))
                = community_reactions)
          /\ (iteration' = iteration + 1 => Len(community_reactions') = iteration')]_vars

\* three rounds are complete and the fourth has not produced its entry yet
C7_Witness ==
    /\ node = "react"
    /\ iteration = 3 /\ Len(community_reactions) = 3
    /\ status = "ongoing"

\* C8: while the session is suspended no state field changes; once the reply
\* is supplied, no new reaction phase (no new suspension request) starts
\* before the evaluation, and the evaluation is asked about that reply.
C8_ReplyThenEvaluation ==
    [][(pc = "ask" => state' = state)
       /\ (suspension = "answered" => ~SuspensionRaised)
       /\ ((suspension = "answered" /\ node = "evaluate" /\ request' # request)
             => (Get(state, "company_response", None) = answer
                 /\ request'.reply = answer))]_vars

\* C10: a suspension request is never raised while an earlier one of the
\* session is still unanswered.
C10_OneSuspensionOutstanding ==
    [][SuspensionRaised => suspension # "open"]_vars

----------------------------------------------------------------------------
(* Properties of the generator's failures *)

\* the generator returned text for the last evaluation request
Returned == request.kind = "evaluation" /\ response.kind = "evaluation"

\* the text it returned is no JSON as a whole
NotJsonText == ~(Len(response.raw) = 1 /\ response.raw[1].json)

\* nor is what follows its last ``` fence
NotJsonTail == ~response.raw[Len(response.raw)].json

\* the record of lines 162-167
FallbackRecord ==
    [score |-> 40, label |-> "mixed",
     reasons |-> <<"Konnte JSON nicht sauber parsen.">>,
     suggestions |-> <<"Klarere Entschuldigung", "Konkrete Massnahmen nennen">>,
     resolved |-> FALSE, catastrophe |-> FALSE]

\* C11 as stated: whenever the generator's evaluation output is no JSON,
\* last_eval of the round is the fallback record.
C11_AsStated ==
    (Returned /\ NotJsonText) => last_eval = FallbackRecord

\* C11 amended: whenever neither the evaluation output nor the text after its
\* last ``` fence parses as JSON, the node returns with last_eval equal to the
\* fallback record and the evaluation is over: the generator is not asked
\* again for it.
C11_FallbackRecord ==
    (Returned /\ NotJsonText /\ NotJsonTail) =>
        /\ pc # "crashed"
        /\ last_eval = FallbackRecord
        /\ node # "evaluate"

\* a fenced JSON block, whose tail after the closing fence is empty, gave the
\* fallback record
C11_Witness ==
    /\ Returned
    /\ Len(response.raw) = 3
    /\ last_eval = FallbackRecord
    /\ reputation_score = 50 /\ status = "ongoing"

\* C12: whatever text the generator returns for the evaluation request, the
\* evaluation does not raise: the round completes.
C12_NeverRaises == Returned => pc # "crashed"

\* C13: when the generator call of the reaction phase raises, the program
\* ends with that error and the stored checkpoint is as it was: no entry is
\* appended, no suspension is created, iteration, reputation_score and status
\* keep their values, and the next node and the pending interrupt are those
\* a resume would start from.
C13_ReactionFailureCommitsNothing ==
    [][(request'.kind = "comments" /\ response'.kind = "raised") =>
        /\ pc' = "crashed"
        /\ state' = state
        /\ pending' = pending
        /\ node' = node]_vars

\* the call failed while react ran again on resume in the second round: the
\* first round's result and the pending interrupt are still stored
C13_Witness ==
    /\ pc = "crashed"
    /\ request.kind = "comments" /\ response.kind = "raised"
    /\ pending # NoInterrupt
    /\ iteration = 1 /\ Len(community_reactions) = 1

\* C14: when the generator call of the evaluation phase raises, the failure
\* is caught and the round completes with last_eval equal to the fallback
\* record.
C14_CallFailureCaught ==
    (request.kind = "evaluation" /\ response.kind = "raised") =>
        (pc # "crashed" /\ last_eval = FallbackRecord)

----------------------------------------------------------------------------
(* Termination *)

\* run_cli keeps running: the graph and the loop take their next step
FairSpec == Spec /\ WF_vars(Next)

\* C15 as stated, for the runs in which no call and no evaluation raises and
\* which stay within the rounds of the model: the session eventually has a
\* terminal status.
C15_AsStated ==
    <>(status \in Terminal \/ pc = "crashed" \/ iteration >= MaxIter)


----------------------------------------------------------------------------
(* Order of the phases *)

\* the generator's answer to a comment request opens a suspension
WaveAsked == SuspensionRaised /\ request'.kind = "comments"

\* the generator is asked for an evaluation
EvaluationAsked == node = "evaluate" /\ request'.kind = "evaluation"

\* C16: the phases of a round run in the order reaction, suspend, evaluate,
\* decide: the generator is asked for a community wave that opens a suspension
\* only when no reply awaits its evaluation, and for an evaluation only when
\* the round's suspension was answered.
C16_PhaseOrder ==
    [][(WaveAsked => suspension # "answered")
       /\ (EvaluationAsked => suspension = "answered")]_vars

\* C17: when the evaluation of a round is due, the wave the human was shown
\* is the entry the round appended to community_reactions, which is the wave
\* the evaluation request carries; react, run again on resume, did not ask
\* the generator for comments a second time.
C17_OneWavePerRound ==
    (node = "evaluate" /\ interrupted # << >>) =>
        /\ community_reactions[Len(community_reactions)]
              = interrupted[1].community_wave
        /\ evaluation_request(state).prev = <<interrupted[1].community_wave>>
        /\ response.kind # "comments"

----------------------------------------------------------------------------
(* Frame of the phases *)

ReactionFields == {"community_reactions", "company_response"}
EvaluationFields == {"last_eval", "reputation_score", "iteration", "status"}

\* C18: once the session's state is created, a step in which evaluate is the
\* node to run changes none of community_reactions and company_response; any
\* other step (react, its suspension and resume, the driver handing in the
\* reply) changes none of last_eval, reputation_score, iteration and status;
\* and cause keeps its value.
C18_Frame ==
    [][(state # EmptyDict) =>
        ((cause' = cause)
         /\ (node = "evaluate" =>
               Restrict(state', ReactionFields) = Restrict(state, ReactionFields))
         /\ (node # "evaluate" =>
               Restrict(state', EvaluationFields) = Restrict(state, EvaluationFields)))]_vars

\* the second round's reaction has appended its wave and stored a reply after
\* the first round's evaluation moved the score
C18_Witness ==
    /\ node = "evaluate"
    /\ iteration = 1 /\ Len(community_reactions) = 2
    /\ reputation_score = 70
    /\ Get(state, "company_response", << >>) = <<"a">>
    /\ "last_eval" \in DOMAIN state

----------------------------------------------------------------------------
(* Scores a session can reach *)

\* C19: the round limit reads the count of the rounds completed before the
\* current one: a session that is 'ongoing' with a score < 60 has completed
\* six rounds at most.
C19_LimitReadsCountBefore ==
    (status = "ongoing" /\ reputation_score < 60) => iteration <= 6

\* the sixth evaluation, which read iteration 5, left a score < 60 'ongoing'
C19_Witness ==
    /\ Evaluated
    /\ status = "ongoing"
    /\ iteration = 6 /\ evalIteration = 5
    /\ reputation_score < 60

\* C20: in a session started at the score 50 every score is one of 10, 30,
\* 50, 70, 90, an 'ongoing' session has one of 30, 50, 70, and an evaluation
\* takes the score s to s + d with no clamping, d being the change for its
\* label.
C20_ScoreLattice ==
    /\ [](reputation_score \in {10, 30, 50, 70, 90})
    /\ [](status = "ongoing" => reputation_score \in {30, 50, 70})
    /\ [][(node = "evaluate" /\ pc' # "crashed") =>
            reputation_score' =
              reputation_score
                + delta(Get(Get(state', "last_eval", EmptyDict), "label", "mixed"))]_vars

\* two 'poor' evaluations took the score to the lowest value a session has,
\* and two 'good' ones would take it to the highest
C20_Witness ==
    /\ Evaluated
    /\ iteration = 2
    /\ \/ evalLabel = "poor" /\ reputation_score = 10 /\ status = "catastrophe"
       \/ evalLabel = "good" /\ reputation_score = 90 /\ status = "resolved"

====
